---- MODULE Spec2Model ----
(***************************************************************************)
(* State-machine model of the scan front end of Null-Scan-Tool:            *)
(*   - CodeReviewSection.jsx   (archive upload, per-file review batch)     *)
(*   - APKAnalyzerSection.jsx  (APK selection and analysis)                *)
(*   - NetworkScanSection.jsx  (network scan, CVE enrichment)              *)
(*   - SolidityAnalysisSection (contract analysis)                         *)
(*   - SecurityReportExporter  (security score, PDF report)                *)
(* Every event handler runs to its next await atomically (JavaScript is    *)
(* single threaded); each await is a suspension point at which any other   *)
(* handler or pending continuation may run.                                *)
(***************************************************************************)
EXTENDS Integers, Sequences, FiniteSets, TLC

(***************************************************************************)
(* Bounds                                                                  *)
(***************************************************************************)
\* number of distinct file names an uploaded archive may contain
MaxFiles == 2

(***************************************************************************)
(* JavaScript values                                                       *)
(***************************************************************************)
Null == "null"
Undefined == "undefined"

\* a || b on strings, null and undefined: the falsy values are "", null, undefined
OrElse(a, b) == IF a \in {"", Null, Undefined} THEN b ELSE a

\* a value is "present" when it is neither null nor undefined
Present(v) == v \notin {Null, Undefined}

(***************************************************************************)
(* STATUS (the same table in the three components)                         *)
(***************************************************************************)
PENDING == "pending"
PROCESSING == "processing"
COMPLETED == "completed"
ERROR == "error"

(***************************************************************************)
(* Code review section                                                     *)
(***************************************************************************)
VARIABLES
    zipFiles,          \* the uploaded archive: its file names in key order
    fileResults,       \* file name -> [status, result, error]
    codeProgress,      \* <<numerator, denominator>> of the progress percentage
    isCodeProcessing,  \* a batch is running
    runs               \* the handleCodeReview invocations still running

codeVars == <<zipFiles, fileResults, codeProgress, isCodeProcessing, runs>>

FileNames == 1..MaxFiles

\* sequences of n distinct file names
RECURSIVE DistinctSeqs(_)
DistinctSeqs(n) ==
    IF n = 0 THEN {<<>>}
    ELSE {Append(s, f) : s \in DistinctSeqs(n - 1), f \in FileNames} \cap
         {s \in [1..n -> FileNames] : \A i, j \in 1..n : i # j => s[i] # s[j]}

\* what the extraction of an archive can yield: the text files it holds, in
\* the order in which they were inserted into textFiles
Archives == UNION {DistinctSeqs(n) : n \in 0..MaxFiles}

\* Object.keys(zipFiles)
ObjectKeys(z) == [i \in 1..Len(z) |-> z[i]]

\* the responses the review endpoint can give to one call
\*   ok         res.ok, data.result is a non-empty text
\*   ok_empty   res.ok, data.result is missing or empty
\*   http       !res.ok
\*   throw      fetch or res.json() rejects with a message
\*   throw_bare the rejection carries no message
Outcomes == {"ok", "ok_empty", "http", "throw", "throw_bare"}
FailOutcomes == {"http", "throw", "throw_bare"}

\* data.result of a response
DataResult(o) == IF o = "ok" THEN "review text" ELSE Undefined

\* error.message of what reviewSingleFile's try block throws
ThrownMessage(o) ==
    CASE o = "http" -> "HTTP 500: INTERNAL SERVER ERROR"
      [] o = "throw" -> "Failed to fetch"
      [] OTHER -> ""

PendingEntry == [status |-> PENDING, result |-> Null, error |-> Null]

\* {...prev[filename], status: STATUS.PROCESSING}
ProcessingEntry(prev, filename) ==
    IF filename \in DOMAIN prev
    THEN [prev[filename] EXCEPT !.status = PROCESSING]
    ELSE [status |-> PROCESSING, result |-> Undefined, error |-> Undefined]

\* setFileResults(prev => ({...prev, [filename]: entry}))
SetEntry(prev, filename, entry) ==
    [f \in DOMAIN prev \cup {filename} |->
        IF f = filename THEN entry ELSE prev[f]]

\* a mutant of SettledEntry: the catch block records only HTTP errors
SettledEntryNoCatch(prev, filename, o) ==
    IF o \in {"ok", "ok_empty"}
    THEN [status |-> COMPLETED,
          result |-> OrElse(DataResult(o), "No response received from server"),
          error |-> Null]
    ELSE IF o = "http"
    THEN [status |-> ERROR, result |-> Null,
          error |-> OrElse(ThrownMessage(o), "Unknown error occurred")]
    ELSE ProcessingEntry(prev, filename)

\* the entry reviewSingleFile writes once its call has settled with outcome o
SettledEntry(prev, filename, o) ==
    IF o \in {"ok", "ok_empty"}
    THEN [status |-> COMPLETED,
          result |-> OrElse(DataResult(o), "No response received from server"),
          error |-> Null]
    ELSE [status |-> ERROR, result |-> Null,
          error |-> OrElse(ThrownMessage(o), "Unknown error occurred")]

\* Object.values(fileResults).filter(r => r.status === s).length
CountStatus(fr, s) == Cardinality({f \in DOMAIN fr : fr[f].status = s})

completedCount == CountStatus(fileResults, COMPLETED)
errorCount == CountStatus(fileResults, ERROR)
totalFiles == Len(zipFiles)

\* a mutant of StartDisabled: the button ignores a running batch
StartDisabledNoGuard == totalFiles = 0

\* disabled={isCodeProcessing || totalFiles === 0}
StartDisabled == isCodeProcessing \/ totalFiles = 0

\* a mutant of FirstCalls: the loop does not await reviewSingleFile
FirstCallsNoAwait(filenames) == filenames

\* the files whose review is called before handleCodeReview first suspends
FirstCalls(filenames) == <<filenames[1]>>

\* the log of a run: <<"call", f>> when f is moved to processing and its
\* request is sent, <<"done", f>> when its entry has been settled
RECURSIVE CallLog(_)
CallLog(names) ==
    IF names = <<>> THEN <<>> ELSE <<<<"call", Head(names)>>>> \o CallLog(Tail(names))

RECURSIVE MarkProcessing(_, _)
MarkProcessing(prev, names) ==
    IF names = <<>> THEN prev
    ELSE MarkProcessing(SetEntry(prev, Head(names), ProcessingEntry(prev, Head(names))),
                        Tail(names))

\* the file whose call a run is waiting for
CurrentFile(r) == r.filenames[r.completed + 1]

CodeInit ==
    /\ zipFiles = <<>>
    /\ fileResults = <<>>
    /\ codeProgress = <<0, 1>>
    /\ isCodeProcessing = FALSE
    /\ runs = <<>>

\* a ZIP file is chosen and read; textFiles holds the names in `archive`
handleZipUpload(archive) ==
    /\ zipFiles' = archive
    /\ fileResults' = [f \in {archive[i] : i \in DOMAIN archive} |-> PendingEntry]
    /\ codeProgress' = <<0, 1>>
    /\ runs' = [i \in DOMAIN runs |-> [runs[i] EXCEPT !.abandoned = TRUE]]
    /\ UNCHANGED isCodeProcessing

\* the Start Code Review button is pressed: handleCodeReview up to its first
\* await, which is inside reviewSingleFile
handleCodeReview ==
    /\ ~StartDisabled
    /\ Len(zipFiles) # 0
    /\ LET filenames == ObjectKeys(zipFiles)
           first == FirstCalls(filenames)
       IN /\ isCodeProcessing' = TRUE
          /\ codeProgress' = <<0, 1>>
          /\ fileResults' = MarkProcessing(fileResults, first)
          /\ runs' = Append(runs, [filenames |-> filenames,
                                   completed |-> 0,
                                   log |-> CallLog(first),
                                   abandoned |-> FALSE])
    /\ UNCHANGED zipFiles

RemoveAt(s, i) == [j \in 1..(Len(s) - 1) |-> IF j < i THEN s[j] ELSE s[j + 1]]

\* a mutant of BatchProgress: the percentage is computed before completed++
BatchProgressBeforeCount(completed, total) == <<(completed - 1) * 100, total>>

\* (completed / filenames.length) * 100
BatchProgress(completed, total) == <<completed * 100, total>>

\* the call of run i settles with outcome o: the rest of reviewSingleFile, then
\* handleCodeReview up to its next await or its return
reviewSingleFile(i, o) ==
    /\ i \in DOMAIN runs
    /\ runs[i].completed < Len(runs[i].filenames)
    /\ LET r == runs[i]
           f == CurrentFile(r)
           settled == SetEntry(fileResults, f, SettledEntry(fileResults, f, o))
           completed == r.completed + 1
       IN /\ codeProgress' = BatchProgress(completed, Len(r.filenames))
          /\ IF completed < Len(r.filenames)
             THEN LET next == r.filenames[completed + 1]
                  IN /\ fileResults' = SetEntry(settled, next, ProcessingEntry(settled, next))
                     /\ runs' = [runs EXCEPT ![i] =
                                    [r EXCEPT !.completed = completed,
                                              !.log = r.log \o <<<<"done", f>>, <<"call", next>>>>]]
                     /\ UNCHANGED isCodeProcessing
             ELSE /\ fileResults' = settled
                  /\ runs' = RemoveAt(runs, i)
                  /\ isCodeProcessing' = FALSE
    /\ UNCHANGED zipFiles

(***************************************************************************)
(* APK analyzer section                                                    *)
(***************************************************************************)
\* handleAnalyze invocations that may be suspended at the same time
MaxAnalyses == 2

VARIABLES
    file,         \* the selected APK, or null
    status,       \* STATUS of the APK analysis
    progress,     \* <<numerator, denominator>> of the progress percentage
    currentStep,  \* index into the APK SCAN_STEPS
    results,      \* the analyzer's report, or null
    error,        \* the displayed error message, or null
    analyses      \* the handleAnalyze invocations still running: each is the
                  \* step it sleeps in, or ApkSteps once its request is sent

apkVars == <<file, status, progress, currentStep, results, error, analyses>>

\* SCAN_STEPS.length of APKAnalyzerSection.jsx
ApkSteps == 6

\* what the file input can deliver: nothing, an .apk file, another file
SelectedFiles == {Undefined, "app.apk", "notes.txt"}

\* selectedFile.name.toLowerCase().endsWith('.apk')
EndsWithApk(name) == name = "app.apk"

\* the responses of the upload endpoint
\*   ok          response.ok with a report
\*   http        !response.ok, the body names an error
\*   http_bare   !response.ok, the body names none
\*   throw       fetch or response.json() rejects with a message
\*   throw_bare  the rejection carries no message
ApkOutcomes == {"ok", "http", "http_bare", "throw", "throw_bare"}

\* err.message of what handleAnalyze's try block throws
ApkThrownMessage(o) ==
    CASE o = "http" -> OrElse("Invalid APK", "HTTP 400: BAD REQUEST")
      [] o = "http_bare" -> OrElse(Undefined, "HTTP 400: BAD REQUEST")
      [] o = "throw" -> "Failed to fetch"
      [] OTHER -> ""

ApkInit ==
    /\ file = Null
    /\ status = PENDING
    /\ progress = <<0, 1>>
    /\ currentStep = 0
    /\ results = Null
    /\ error = Null
    /\ analyses = <<>>

\* a file is chosen in the file input
handleFileChange(selectedFile) ==
    /\ IF Present(selectedFile) /\ EndsWithApk(selectedFile)
       THEN /\ file' = selectedFile
            /\ status' = PENDING
            /\ results' = Null
            /\ error' = Null
       ELSE /\ error' = "Please select a valid APK file (.apk extension)"
            /\ file' = Null
            /\ status' = ERROR
            /\ results' = Null
    /\ UNCHANGED <<progress, currentStep, analyses>>

\* disabled={status === STATUS.PROCESSING || !file}
AnalyzeDisabled == status = PROCESSING \/ ~Present(file)

\* the Start Analysis button is pressed: handleAnalyze up to the sleep of step 0
handleAnalyze ==
    /\ ~AnalyzeDisabled
    /\ Len(analyses) < MaxAnalyses
    /\ IF ~Present(file)
       THEN /\ error' = "No file selected"
            /\ status' = ERROR
            /\ UNCHANGED <<progress, currentStep, analyses>>
       ELSE /\ status' = PROCESSING
            /\ progress' = <<0 * 100, ApkSteps>>
            /\ currentStep' = 0
            /\ error' = Null
            /\ analyses' = Append(analyses, 0)
    /\ UNCHANGED <<file, results>>

\* a mutant of analyzeStep: the percentage is rounded down
analyzeStepFloored(k) ==
    /\ k \in DOMAIN analyses
    /\ analyses[k] < ApkSteps
    /\ LET i == analyses[k] + 1
       IN /\ analyses' = [analyses EXCEPT ![k] = i]
          /\ IF i < ApkSteps
             THEN /\ currentStep' = i
                  /\ progress' = <<(i * 100) \div ApkSteps, 1>>
             ELSE UNCHANGED <<currentStep, progress>>
    /\ UNCHANGED <<file, status, results, error>>

\* the 500 ms sleep of analysis k ends: the next step is shown, or the
\* request is sent
analyzeStep(k) ==
    /\ k \in DOMAIN analyses
    /\ analyses[k] < ApkSteps
    /\ LET i == analyses[k] + 1
       IN /\ analyses' = [analyses EXCEPT ![k] = i]
          /\ IF i < ApkSteps
             THEN /\ currentStep' = i
                  /\ progress' = <<i * 100, ApkSteps>>
             ELSE UNCHANGED <<currentStep, progress>>
    /\ UNCHANGED <<file, status, results, error>>

\* the request of analysis k settles with outcome o
analyzeResponse(k, o) ==
    /\ k \in DOMAIN analyses
    /\ analyses[k] = ApkSteps
    /\ analyses' = RemoveAt(analyses, k)
    /\ IF o = "ok"
       THEN /\ results' = "apk report"
            /\ status' = COMPLETED
            /\ progress' = <<100, 1>>
            /\ UNCHANGED error
       ELSE /\ status' = ERROR
            /\ error' = OrElse(ApkThrownMessage(o), "An unexpected error occurred")
            /\ UNCHANGED <<results, progress>>
    /\ UNCHANGED <<file, currentStep>>

(***************************************************************************)
(* Network scan section                                                    *)
(***************************************************************************)
\* number of ports a scan response may report
MaxPorts == 2

VARIABLES
    networkConfig,     \* [target]
    networkResults,    \* the scan response, {} or {error}
    networkProgress,   \* <<numerator, denominator>> of the progress percentage
    networkStatus,     \* STATUS of the network scan
    currentScanStep,   \* index into the network SCAN_STEPS
    cveData,           \* product -> lookup result
    cveLoading,        \* fetchCveData is running
    scans,             \* the handleNetworkScan invocations still running
    clock,             \* milliseconds slept since the last scan was started
    onCompleteTimers,  \* setTimeout(onComplete) callbacks not yet run
    networkScanOpen,   \* parent state set by handleNetworkScanComplete
    codeScanOpen

netVars == <<networkConfig, networkResults, networkProgress, networkStatus,
             currentScanStep, cveData, cveLoading, scans, clock,
             onCompleteTimers, networkScanOpen, codeScanOpen>>

\* SCAN_STEPS.length of NetworkScanSection.jsx
NetSteps == 5
\* the share of the progress bar the simulated steps fill
NetCap == 80
\* the index of the cve_lookup step
CveStep == 4
\* setTimeout(resolve, 500) between two simulated steps
StepDelay == 500
\* setTimeout(resolve, 1000) after every CVE lookup
CveDelay == 1000

Targets == {"", "192.168.1.1"}
Ports == 1..MaxPorts

\* the product strings a scanner reports: none, blank, a name, a name with
\* trailing white space, another name
ProductStrings == {"", " ", "nginx", "nginx ", "apache"}
VersionStrings == {"", "1.0"}

\* String.prototype.trim on the strings above
Trim(str) ==
    CASE str = " " -> ""
      [] str = "nginx " -> "nginx"
      [] OTHER -> str

\* a || b is b for a falsy a; a && b is a for a falsy a
Truthy(v) == v \notin {"", Null, Undefined}

\* what a response reports for one port; the version varies for one product
PortInfos ==
    {info \in [product : ProductStrings, version : VersionStrings] :
        /\ ~Truthy(Trim(info.product)) => info.version = ""
        /\ info.product \in {"nginx ", "apache"} => info.version = "1.0"}

\* the port tables of a response: port -> info, for any set of ports
TcpTables == UNION {[P -> PortInfos] : P \in SUBSET Ports}

\* an optional port table: Missing when the key is absent, Some(t) otherwise
Missing == {}
Some(t) == {t}
The(opt) == CHOOSE t \in opt : TRUE
Opt(S) == {Missing} \cup {Some(t) : t \in S}

\* the elements of a sequence
Range(s) == {s[i] : i \in DOMAIN s}

\* {}: the keys a result object may carry, all absent
EmptyObject ==
    [port_scan_tcp |-> Missing, tcp |-> Missing, error |-> Undefined,
     ssl_security_findings |-> Missing, http_security_findings |-> Missing]

\* the payloads of a successful scan: the port table under port_scan.tcp, under
\* the legacy key tcp, or under both
ScanPayloads ==
    {[EmptyObject EXCEPT !.port_scan_tcp = Some(t)] : t \in TcpTables} \cup
    {[EmptyObject EXCEPT !.tcp = Some(t)] : t \in TcpTables} \cup
    {[EmptyObject EXCEPT !.port_scan_tcp = Some(t), !.tcp = Some(t)] : t \in TcpTables}

\* the outcomes of a request: a response that is ok, one that is not, a rejection
ScanOutcomes == {"ok", "http", "throw"}
FailedOutcomes == {"http", "throw"}

\* ports in the order of Object.entries: integer keys ascend
RECURSIVE SortedPorts(_)
SortedPorts(P) ==
    IF P = {} THEN <<>>
    ELSE LET m == CHOOSE x \in P : \A y \in P : x <= y
         IN <<m>> \o SortedPorts(P \ {m})

\* the forEach of extractProductsFromScanResults over one port table
RECURSIVE ProductsOfTable(_, _)
ProductsOfTable(table, ports) ==
    IF ports = <<>> THEN <<>>
    ELSE LET port == Head(ports)
             info == table[port]
             rest == ProductsOfTable(table, Tail(ports))
         IN IF Truthy(info.product) /\ Truthy(Trim(info.product))
            THEN <<[port |-> port,
                    product |-> Trim(info.product),
                    version |-> IF Truthy(info.version) THEN Trim(info.version) ELSE ""]>>
                 \o rest
            ELSE rest

\* if (results.port_scan?.tcp) { ... } and if (results.tcp) { ... }
ProductsOf(opt) ==
    IF opt = Missing THEN <<>>
    ELSE ProductsOfTable(The(opt), SortedPorts(DOMAIN The(opt)))

extractProductsFromScanResults(res) ==
    ProductsOf(res.port_scan_tcp) \o ProductsOf(res.tcp)

\* data.cves of the lookup endpoint for a request
CveLookup(module_name, version) ==
    IF module_name = "nginx" /\ version = "1.0" THEN <<"CVE-2021-23017">>
    ELSE IF module_name = "apache" THEN <<"CVE-2021-41773", "CVE-2021-42013">>
    ELSE <<>>

\* cveResults[productInfo.product] = ... after a lookup that returned
RecordLookup(cveResults, productInfo, o) ==
    LET entry == IF o = "ok"
                 THEN [cves |-> CveLookup(productInfo.product, productInfo.version),
                       error |-> Undefined,
                       port |-> productInfo.port,
                       version |-> productInfo.version]
                 ELSE [cves |-> <<>>,
                       error |-> "Failed to fetch CVE data",
                       port |-> productInfo.port,
                       version |-> productInfo.version]
    IN [q \in DOMAIN cveResults \cup {productInfo.product} |->
            IF q = productInfo.product THEN entry ELSE cveResults[q]]

\* getPortData: the port table the section displays
getPortData(res) ==
    IF res.port_scan_tcp # Missing THEN The(res.port_scan_tcp)
    ELSE IF res.tcp # Missing THEN The(res.tcp)
    ELSE <<>>

\* getSecurityFindingsCount: the counts in the summary of the section
getSecurityFindingsCount(res) ==
    [sslCount |-> IF res.ssl_security_findings # Missing
                  THEN Cardinality(DOMAIN The(res.ssl_security_findings)) ELSE 0,
     httpCount |-> IF res.http_security_findings # Missing
                   THEN Cardinality(DOMAIN The(res.http_security_findings)) ELSE 0]

\* the ports extractProductsFromScanResults goes through: those of
\* port_scan.tcp and those of tcp
PortsConsidered(res) ==
    (IF res.port_scan_tcp # Missing THEN DOMAIN The(res.port_scan_tcp) ELSE {}) \cup
    (IF res.tcp # Missing THEN DOMAIN The(res.tcp) ELSE {})

\* the CVE list rendered for a displayed port: cveData[info.product].cves
ShownCves(res, cves, port) ==
    LET info == getPortData(res)[port]
    IN IF Truthy(info.product) /\ Truthy(Trim(info.product)) /\ info.product \in DOMAIN cves
       THEN cves[info.product].cves
       ELSE <<>>

NetInit ==
    /\ networkConfig = [target |-> ""]
    /\ networkResults = EmptyObject
    /\ networkProgress = <<0, 1>>
    /\ networkStatus = PENDING
    /\ currentScanStep = 0
    /\ cveData = <<>>
    /\ cveLoading = FALSE
    /\ scans = <<>>
    /\ clock = 0
    /\ onCompleteTimers = 0
    /\ networkScanOpen = TRUE
    /\ codeScanOpen = FALSE

\* the target input is edited
setNetworkConfig(target) ==
    /\ networkConfig' = [networkConfig EXCEPT !.target = target]
    /\ UNCHANGED <<networkResults, networkProgress, networkStatus, currentScanStep,
                   cveData, cveLoading, scans, clock, onCompleteTimers,
                   networkScanOpen, codeScanOpen>>

\* disabled={networkStatus === STATUS.PROCESSING || !networkConfig.target}
ScanDisabled == networkStatus = PROCESSING \/ ~Truthy(networkConfig.target)

\* a mutant of handleNetworkScan: the records of the last scan are kept
handleNetworkScanKeepRecords ==
    /\ ~ScanDisabled
    /\ Truthy(networkConfig.target)
    /\ networkStatus' = PROCESSING
    /\ networkProgress' = <<0 * NetCap, NetSteps>>
    /\ currentScanStep' = 0
    /\ clock' = 0
    /\ scans' = Append(scans, [pc |-> "step", i |-> 0, products |-> <<>>, idx |-> 0,
                               cveResults |-> <<>>, lookups |-> <<>>])
    /\ UNCHANGED <<networkConfig, networkResults, cveData, cveLoading, onCompleteTimers,
                   networkScanOpen, codeScanOpen>>

\* the Start Network Scan button is pressed: handleNetworkScan up to the sleep
\* of step 0
handleNetworkScan ==
    /\ ~ScanDisabled
    /\ Truthy(networkConfig.target)
    /\ networkStatus' = PROCESSING
    /\ networkProgress' = <<0 * NetCap, NetSteps>>
    /\ currentScanStep' = 0
    /\ cveData' = <<>>
    /\ clock' = 0
    /\ scans' = Append(scans, [pc |-> "step", i |-> 0, products |-> <<>>, idx |-> 0,
                               cveResults |-> <<>>, lookups |-> <<>>])
    /\ UNCHANGED <<networkConfig, networkResults, cveLoading, onCompleteTimers,
                   networkScanOpen, codeScanOpen>>

\* a mutant of SleepUntil: the promise of the timer is not awaited
SleepNoWait(now, ms) == now

\* await new Promise(resolve => setTimeout(resolve, ms)) entered at time now:
\* the time at which the handler resumes
SleepUntil(now, ms) == now + ms

\* a timer set one second ago has run by the time two step sleeps have ended
TimersDue(elapsed) == elapsed >= 2 * StepDelay => onCompleteTimers = 0

\* the sleep of step i of scan k ends: the next step is shown, or the scan
\* request is sent
scanStep(k) ==
    /\ k \in DOMAIN scans
    /\ scans[k].pc = "step"
    /\ TimersDue(SleepUntil(clock, StepDelay))
    /\ clock' = SleepUntil(clock, StepDelay)
    /\ LET i == scans[k].i + 1
       IN IF i < NetSteps - 1
          THEN /\ currentScanStep' = i
               /\ networkProgress' = <<i * NetCap, NetSteps>>
               /\ scans' = [scans EXCEPT ![k].i = i]
          ELSE /\ scans' = [scans EXCEPT ![k].pc = "scan"]
               /\ UNCHANGED <<currentScanStep, networkProgress>>
    /\ UNCHANGED <<networkConfig, networkResults, networkStatus, cveData, cveLoading,
                   onCompleteTimers, networkScanOpen, codeScanOpen>>

\* the tail of handleNetworkScan once enrichment is over (or was not needed)
FinishScan(k, cveResults) ==
    /\ networkStatus' = COMPLETED
    /\ networkProgress' = <<100, 1>>
    /\ onCompleteTimers' = onCompleteTimers + 1
    /\ scans' = RemoveAt(scans, k)
    /\ cveData' = cveResults

\* a mutant of scanResponse: fetchCveData is called but not awaited
scanResponseNoAwait(k, data) ==
    /\ k \in DOMAIN scans
    /\ scans[k].pc = "scan"
    /\ networkResults' = data
    /\ currentScanStep' = CveStep
    /\ networkStatus' = COMPLETED
    /\ networkProgress' = <<100, 1>>
    /\ onCompleteTimers' = onCompleteTimers + 1
    /\ LET products == extractProductsFromScanResults(data)
       IN IF Len(products) > 0
          THEN /\ cveLoading' = TRUE
               /\ scans' = [scans EXCEPT ![k] =
                      [@ EXCEPT !.pc = "lookup", !.products = products, !.idx = 1,
                                !.lookups = <<[product |-> products[1].product,
                                               version |-> products[1].version,
                                               at |-> clock]>>]]
          ELSE /\ scans' = RemoveAt(scans, k)
               /\ UNCHANGED cveLoading
    /\ UNCHANGED <<networkConfig, cveData, clock, networkScanOpen, codeScanOpen>>

\* the scan request of scan k is answered with an ok response carrying data
scanResponse(k, data) ==
    /\ k \in DOMAIN scans
    /\ scans[k].pc = "scan"
    /\ networkResults' = data
    /\ currentScanStep' = CveStep
    /\ LET products == extractProductsFromScanResults(data)
       IN IF Len(products) > 0
          THEN /\ cveLoading' = TRUE
               /\ networkProgress' = <<NetCap, 1>>
               /\ scans' = [scans EXCEPT ![k] =
                      [@ EXCEPT !.pc = "lookup", !.products = products, !.idx = 1,
                                !.lookups = <<[product |-> products[1].product,
                                               version |-> products[1].version,
                                               at |-> clock]>>]]
               /\ UNCHANGED <<networkStatus, cveData, onCompleteTimers>>
          ELSE /\ networkStatus' = COMPLETED
               /\ networkProgress' = <<100, 1>>
               /\ onCompleteTimers' = onCompleteTimers + 1
               /\ scans' = RemoveAt(scans, k)
               /\ UNCHANGED <<cveData, cveLoading>>
    /\ UNCHANGED <<networkConfig, clock, networkScanOpen, codeScanOpen>>

\* a mutant of scanFailed: the failure is shown but the handler does not return
scanFailedNoReturn(k, o) ==
    /\ k \in DOMAIN scans
    /\ scans[k].pc = "scan"
    /\ o \in FailedOutcomes
    /\ networkStatus' = ERROR
    /\ networkResults' = [EmptyObject EXCEPT !.error = "Failed to fetch"]
    /\ UNCHANGED <<networkConfig, networkProgress, currentScanStep, cveData, cveLoading,
                   onCompleteTimers, clock, networkScanOpen, codeScanOpen, scans>>

\* the scan request of scan k fails: a response that is not ok, or a rejection
scanFailed(k, o) ==
    /\ k \in DOMAIN scans
    /\ scans[k].pc = "scan"
    /\ o \in FailedOutcomes
    /\ networkStatus' = ERROR
    /\ networkResults' = [EmptyObject EXCEPT !.error =
                             IF o = "http" THEN "HTTP 500: INTERNAL SERVER ERROR"
                             ELSE "Failed to fetch"]
    /\ scans' = RemoveAt(scans, k)
    /\ UNCHANGED <<networkConfig, networkProgress, currentScanStep, cveData, cveLoading,
                   onCompleteTimers, clock, networkScanOpen, codeScanOpen>>

\* the CVE lookup of scan k settles
lookupResponse(k, o) ==
    /\ k \in DOMAIN scans
    /\ scans[k].pc = "lookup"
    /\ LET sc == scans[k]
       IN IF o = "throw"
          THEN /\ cveLoading' = FALSE
               /\ FinishScan(k, sc.cveResults)
          ELSE /\ scans' = [scans EXCEPT ![k] =
                      [@ EXCEPT !.pc = "delay",
                                !.cveResults = RecordLookup(sc.cveResults, sc.products[sc.idx], o)]]
               /\ UNCHANGED <<networkStatus, networkProgress, cveData, cveLoading,
                              onCompleteTimers>>
    /\ UNCHANGED <<networkConfig, networkResults, currentScanStep, clock,
                   networkScanOpen, codeScanOpen>>

\* the delay after a lookup of scan k ends: the next product is looked up, or
\* fetchCveData returns
lookupDelay(k) ==
    /\ k \in DOMAIN scans
    /\ scans[k].pc = "delay"
    /\ TimersDue(SleepUntil(clock, CveDelay))
    /\ clock' = SleepUntil(clock, CveDelay)
    /\ LET sc == scans[k]
       IN IF sc.idx < Len(sc.products)
          THEN /\ scans' = [scans EXCEPT ![k] =
                      [@ EXCEPT !.pc = "lookup", !.idx = sc.idx + 1,
                                !.lookups = Append(sc.lookups,
                                    [product |-> sc.products[sc.idx + 1].product,
                                     version |-> sc.products[sc.idx + 1].version,
                                     at |-> clock'])]]
               /\ UNCHANGED <<networkStatus, networkProgress, cveData, cveLoading,
                              onCompleteTimers>>
          ELSE /\ cveLoading' = FALSE
               /\ FinishScan(k, sc.cveResults)
    /\ UNCHANGED <<networkConfig, networkResults, currentScanStep,
                   networkScanOpen, codeScanOpen>>

\* a setTimeout(onComplete) callback runs: handleNetworkScanComplete
handleNetworkScanComplete ==
    /\ onCompleteTimers > 0
    /\ onCompleteTimers' = onCompleteTimers - 1
    /\ networkScanOpen' = FALSE
    /\ codeScanOpen' = TRUE
    /\ UNCHANGED <<networkConfig, networkResults, networkProgress, networkStatus,
                   currentScanStep, cveData, cveLoading, scans, clock>>

(***************************************************************************)
(* Solidity analysis section (SolidityAnalysisSection)                     *)
(***************************************************************************)
VARIABLES
    inputMode,            \* "file" or "code"
    solidityConfig,       \* [file, contractCode]
    solidityResults,      \* null, the data of a response, or {error: message}
    solidityProgress,     \* <<numerator, denominator>> of the progress percentage
    solidityStatus,
    currentAnalysisStep,
    solidityRuns,         \* the handleSolidityAnalysis invocations still running
    findings              \* the findings computed by the latest render, if any

solVars == <<inputMode, solidityConfig, solidityResults, solidityProgress,
             solidityStatus, currentAnalysisStep, solidityRuns, findings>>

\* ANALYSIS_STEPS.length
SolSteps == 5
\* the share of the bar the simulated steps fill
SolCap == 80
\* the index of the report generation step
ReportStep == 4

InputModes == {"file", "code"}
ContractFiles == {Null, "Token.sol"}
ContractCodes == {"", " ", "contract C {}"}

\* number of vulnerabilities an analysis may report
MaxVulns == 3

\* the values of solidityResults: null, the data of a response with its
\* vulnerabilities (Missing when the key is absent, null or not an array), and
\* the object the catch block stores
NoResults == [kind |-> "null"]
AnalysisData(vulns) == [kind |-> "data", vulnerabilities |-> vulns]
AnalysisError(message) == [kind |-> "error", error |-> message]

\* the impact a vulnerability reports: none, a known one in several spellings,
\* one the section does not know
Impacts == {Undefined, "High", "high", "Medium", "Low", "Informational",
            "Optimization", "Critical"}

\* String.prototype.toLowerCase on the impacts
ToLowerCase(str) ==
    CASE str = "High" -> "high"
      [] str = "Medium" -> "medium"
      [] str = "Low" -> "low"
      [] str = "Informational" -> "informational"
      [] str = "Optimization" -> "optimization"
      [] str = "Critical" -> "critical"
      [] OTHER -> str

\* the vulnerability lists of a response; the id of a vulnerability is its
\* place in the list
VulnLists ==
    UNION {{[i \in 1..n |-> [id |-> i, impact |-> imp[i], description |-> Undefined]] :
               imp \in [1..n -> Impacts]} : n \in 0..MaxVulns}

\* what the section can hold as the result of an ended analysis
ContractResults ==
    {AnalysisData(v) : v \in Opt(VulnLists)} \cup {AnalysisError("Failed to fetch")}

\* the data the analysis endpoint answers with while the section is used
AnalysisResponses ==
    {AnalysisData(Missing),
     AnalysisData(Some(<<[id |-> 1, impact |-> "High", description |-> Undefined],
                         [id |-> 2, impact |-> Undefined, description |-> Undefined]>>))}

NoFindings ==
    [high |-> <<>>, medium |-> <<>>, low |-> <<>>, informational |-> <<>>,
     optimization |-> <<>>]

\* a mutant of ImpactOf: the impact is compared as it was reported
ImpactAsReported(vuln) == IF Truthy(vuln.impact) THEN vuln.impact ELSE "informational"

\* vuln.impact?.toLowerCase() || 'informational'
ImpactOf(vuln) ==
    LET lowered == IF Present(vuln.impact) THEN ToLowerCase(vuln.impact) ELSE Undefined
    IN IF Truthy(lowered) THEN lowered ELSE "informational"

\* the finding object built from a vulnerability
FindingOf(vuln) ==
    [id |-> vuln.id,
     title |-> IF Truthy(vuln.description) THEN vuln.description
               ELSE "No description available",
     impact |-> IF Truthy(vuln.impact) THEN vuln.impact ELSE "Unknown"]

\* the switch on the impact: the bucket the finding is pushed to
BucketOf(impact) ==
    IF impact \in {"high", "medium", "low", "optimization"} THEN impact
    ELSE "informational"

\* results.vulnerabilities.forEach(vuln => ...) pushing onto acc
RECURSIVE PushFindings(_, _)
PushFindings(acc, vulns) ==
    IF vulns = <<>> THEN acc
    ELSE PushFindings([acc EXCEPT ![BucketOf(ImpactOf(Head(vulns)))] =
                          Append(@, FindingOf(Head(vulns)))],
                      Tail(vulns))

extractFindingsFromResults(res) ==
    IF res.kind = "data" /\ res.vulnerabilities # Missing
    THEN PushFindings(NoFindings, The(res.vulnerabilities))
    ELSE NoFindings

\* a mutant of RenderedFindings: findings are computed only from a list
RenderedFindingsOfList(res) ==
    IF res.kind = "data" /\ res.vulnerabilities # Missing
    THEN Some(extractFindingsFromResults(res))
    ELSE Missing

\* const findings = solidityResults ? extractFindingsFromResults(solidityResults) : null
RenderedFindings(res) ==
    IF res = NoResults THEN Missing ELSE Some(extractFindingsFromResults(res))

\* const totalFindings = findings ? the sum of the lengths of its buckets : 0
totalFindings ==
    IF findings = Missing THEN 0
    ELSE Len(The(findings).high) + Len(The(findings).medium) + Len(The(findings).low)
         + Len(The(findings).informational) + Len(The(findings).optimization)

\* the render of the section that follows a state update
RenderFindings == findings' = RenderedFindings(solidityResults')

SolInit ==
    /\ inputMode = "file"
    /\ solidityConfig = [file |-> Null, contractCode |-> ""]
    /\ solidityResults = NoResults
    /\ solidityProgress = <<0, 1>>
    /\ solidityStatus = PENDING
    /\ currentAnalysisStep = 0
    /\ solidityRuns = <<>>
    /\ findings = Missing

setInputMode(mode) ==
    /\ inputMode' = mode
    /\ UNCHANGED <<solidityConfig, solidityResults, solidityProgress, solidityStatus,
                   currentAnalysisStep, solidityRuns>>

\* handleFileChange of the contract file input
handleContractFileChange(selected) ==
    /\ inputMode = "file"
    /\ IF Truthy(selected)
       THEN solidityConfig' = [solidityConfig EXCEPT !.file = selected]
       ELSE UNCHANGED solidityConfig
    /\ UNCHANGED <<inputMode, solidityResults, solidityProgress, solidityStatus,
                   currentAnalysisStep, solidityRuns>>

handleCodeChange(code) ==
    /\ inputMode = "code"
    /\ solidityConfig' = [solidityConfig EXCEPT !.contractCode = code]
    /\ UNCHANGED <<inputMode, solidityResults, solidityProgress, solidityStatus,
                   currentAnalysisStep, solidityRuns>>

canStartAnalysis ==
    IF inputMode = "file"
    THEN Truthy(solidityConfig.file) /\ solidityStatus # PROCESSING
    ELSE Truthy(Trim(solidityConfig.contractCode)) /\ solidityStatus # PROCESSING

\* the Start Analysis button is pressed: handleSolidityAnalysis up to the sleep
\* of step 0
handleSolidityAnalysis ==
    /\ canStartAnalysis
    /\ ~(inputMode = "file" /\ ~Truthy(solidityConfig.file))
    /\ ~(inputMode = "code" /\ ~Truthy(Trim(solidityConfig.contractCode)))
    /\ solidityStatus' = PROCESSING
    /\ solidityProgress' = <<0 * SolCap, SolSteps>>
    /\ currentAnalysisStep' = 0
    /\ solidityRuns' = Append(solidityRuns, [pc |-> "step", i |-> 0])
    /\ UNCHANGED <<inputMode, solidityConfig, solidityResults>>

\* the sleep of step i of run k ends: the next step is shown, or the analysis
\* request is sent
solidityStep(k) ==
    /\ k \in DOMAIN solidityRuns
    /\ solidityRuns[k].pc = "step"
    /\ LET i == solidityRuns[k].i + 1
       IN IF i < SolSteps - 1
          THEN /\ currentAnalysisStep' = i
               /\ solidityProgress' = <<i * SolCap, SolSteps>>
               /\ solidityRuns' = [solidityRuns EXCEPT ![k].i = i]
          ELSE /\ solidityRuns' = [solidityRuns EXCEPT ![k].pc = "analyze"]
               /\ UNCHANGED <<currentAnalysisStep, solidityProgress>>
    /\ UNCHANGED <<inputMode, solidityConfig, solidityResults, solidityStatus>>

\* a mutant of solidityResponse: the handler has no catch block
solidityResponseNoCatch(k, o, data) ==
    /\ k \in DOMAIN solidityRuns
    /\ solidityRuns[k].pc = "analyze"
    /\ solidityRuns' = RemoveAt(solidityRuns, k)
    /\ IF o = "ok"
       THEN /\ solidityResults' = data
            /\ currentAnalysisStep' = ReportStep
            /\ solidityProgress' = <<100, 1>>
            /\ solidityStatus' = COMPLETED
       ELSE UNCHANGED <<solidityStatus, solidityResults, currentAnalysisStep, solidityProgress>>
    /\ UNCHANGED <<inputMode, solidityConfig>>

\* the analysis request of run k is answered: data of an ok response, a
\* response that is not ok, or a rejection
solidityResponse(k, o, data) ==
    /\ k \in DOMAIN solidityRuns
    /\ solidityRuns[k].pc = "analyze"
    /\ solidityRuns' = RemoveAt(solidityRuns, k)
    /\ IF o = "ok"
       THEN /\ solidityResults' = data
            /\ currentAnalysisStep' = ReportStep
            /\ solidityProgress' = <<100, 1>>
            /\ solidityStatus' = COMPLETED
       ELSE /\ solidityStatus' = ERROR
            /\ solidityResults' = AnalysisError(IF o = "http"
                                                THEN "HTTP 500: INTERNAL SERVER ERROR"
                                                ELSE "Failed to fetch")
            /\ UNCHANGED <<currentAnalysisStep, solidityProgress>>
    /\ UNCHANGED <<inputMode, solidityConfig>>

(***************************************************************************)
(* Security report exporter (SecurityReportExporter)                       *)
(***************************************************************************)
\* number of open ports a scan result may report to the exporter
MaxOpenPorts == 4
\* number of ports with SSL findings a scan result may report
MaxFindings == 5

\* number of documents the exporter is asked for
MaxReports == 2

VARIABLES
    securityScore,     \* the score computed by the latest render of the exporter, if mounted
    selectedReview,    \* the review type chosen in the code review section
    isGenerating,      \* a document is being generated
    exportProgress,    \* the progress state of the exporter
    pdfs,              \* the generatePDF invocations still running: [pc, doc]
    saved              \* the documents handed to doc.save, in order

\* the port tables and finding tables of the results the exporter is given
OpenPortTables ==
    {[p \in 1..n |-> [product |-> "", version |-> ""]] : n \in 0..MaxOpenPorts}
Finding == [security_issues |-> <<"issue">>]
SslTables == {[p \in 1..n |-> Finding] : n \in 0..MaxFindings}
HttpTables == {[p \in 1..n |-> Finding] : n \in 0..(MaxFindings \div 2)}

\* the results of a scan that the exporter is given: any of the three tables
\* present or absent, and the object left by a failed scan
ScanReports ==
    {[EmptyObject EXCEPT !.port_scan_tcp = t, !.ssl_security_findings = s,
                         !.http_security_findings = h] :
        t \in Opt(OpenPortTables), s \in Opt(SslTables), h \in Opt(HttpTables)}
    \cup {[EmptyObject EXCEPT !.error = "Failed to fetch"]}

\* Object.keys(results).length > 0 for a scan result
HasKeys(res) ==
    \/ res.port_scan_tcp # Missing
    \/ res.tcp # Missing
    \/ res.ssl_security_findings # Missing
    \/ res.http_security_findings # Missing
    \/ res.error # Undefined

\* optional ? Object.keys(optional).length : 0
KeysLength(opt) == IF opt # Missing THEN Cardinality(DOMAIN The(opt)) ELSE 0

getNetworkStats(res) ==
    [openPorts |-> KeysLength(res.port_scan_tcp),
     sslIssues |-> KeysLength(res.ssl_security_findings),
     httpIssues |-> KeysLength(res.http_security_findings)]

getCodeStats(res) ==
    [totalFiles |-> Cardinality(DOMAIN res),
     completedFiles |-> CountStatus(res, COMPLETED),
     errorFiles |-> CountStatus(res, ERROR)]

Max(a, b) == IF a >= b THEN a ELSE b
Min(a, b) == IF a <= b THEN a ELSE b

\* the value of score before it is rounded, as the exact fraction
\* <<numerator, denominator>>; for the file counts within MaxFiles + 1 the
\* double the code computes rounds as this fraction does
RawScore(networkStats, codeStats) ==
    LET score == 100 - networkStats.sslIssues * 15
                     - networkStats.httpIssues * 10
                     - Max(0, networkStats.openPorts - 3) * 5
    IN IF codeStats.totalFiles > 0
       THEN <<score * codeStats.totalFiles - codeStats.errorFiles * 25, codeStats.totalFiles>>
       ELSE <<score, 1>>

\* a mutant of MathRound: the fraction is cut off
MathFloor(q) == q[1] \div q[2]

\* Math.round: the nearest integer, a half going up
MathRound(q) == (2 * q[1] + q[2]) \div (2 * q[2])

\* Math.max(0, Math.min(100, x))
Clamp(x) == Max(0, Min(100, x))

\* calculateSecurityScore on the props of a render
calculateSecurityScore(network, files) ==
    Clamp(MathRound(RawScore(getNetworkStats(network), getCodeStats(files))))

\* the parent mounts the exporter when either result has a key
ExporterShown(network, files) == HasKeys(network) \/ DOMAIN files # {}

\* a mutant of Rendered: the score computed on the default props is kept
RenderedAtMount(network, files) ==
    IF ExporterShown(network, files)
    THEN Some(calculateSecurityScore(EmptyObject, <<>>))
    ELSE Missing

\* const securityScore = calculateSecurityScore() of a render with these props
Rendered(network, files) ==
    IF ExporterShown(network, files)
    THEN Some(calculateSecurityScore(network, files))
    ELSE Missing

\* the render that follows a state update of a section, the exporter being idle
Render ==
    /\ securityScore' = Rendered(networkResults', fileResults')
    /\ UNCHANGED <<selectedReview, isGenerating, exportProgress, pdfs, saved>>

\* the network section once a scan of the target has ended with data as its
\* result: completed, its onComplete timer run, or failed after the last step
ScanEndedWith(data) ==
    /\ networkConfig = [target |-> "192.168.1.1"]
    /\ networkResults = data
    /\ networkStatus = IF data.error # Undefined THEN ERROR ELSE COMPLETED
    /\ networkProgress = IF data.error # Undefined THEN <<(NetSteps - 2) * NetCap, NetSteps>>
                         ELSE <<100, 1>>
    /\ currentScanStep = IF data.error # Undefined THEN NetSteps - 2 ELSE CveStep
    /\ cveData = <<>>
    /\ cveLoading = FALSE
    /\ scans = <<>>
    /\ clock = (NetSteps - 1) * StepDelay
    /\ onCompleteTimers = 0
    /\ networkScanOpen = (data.error # Undefined)
    /\ codeScanOpen = (data.error = Undefined)

\* the entries of a file no call is outstanding for
IdleEntries ==
    {PendingEntry,
     [status |-> COMPLETED, result |-> "review", error |-> Null],
     [status |-> ERROR, result |-> Null, error |-> "Unknown error occurred"]}

\* the stores the exporter is given while no batch is running
IdleStores == UNION {[Range(z) -> IdleEntries] : z \in Archives}

\* the code review section with store fr and no batch running: the archive
\* holds the files of fr, and the progress is that of the last batch
ReviewEndedWith(fr) ==
    /\ zipFiles = SortedPorts(DOMAIN fr)
    /\ fileResults = fr
    /\ codeProgress = IF \E f \in DOMAIN fr : fr[f].status # PENDING THEN <<100, 1>> ELSE <<0, 1>>
    /\ isCodeProcessing = FALSE
    /\ runs = <<>>

ReviewTypes == {"general", "security"}

getReviewTypeLabel(reviewType) ==
    CASE reviewType = "general" -> "General Review"
      [] reviewType = "security" -> "Security Audit"
      [] OTHER -> reviewType

\* String.prototype.toUpperCase on the statuses
ToUpperCase(str) ==
    CASE str = PENDING -> "PENDING"
      [] str = PROCESSING -> "PROCESSING"
      [] str = COMPLETED -> "COMPLETED"
      [] str = ERROR -> "ERROR"
      [] OTHER -> str

\* what the document holds, in order: an item is <<kind, text, number>>; the
\* dates, the colours and the images of the charts are left out
Item(kind, text, n) == <<kind, text, n>>

addSectionHeader(title, level) == Item(IF level = 1 THEN "h1" ELSE "h2", title, 0)

\* items.forEach(Op) appending to the document
RECURSIVE Flatten(_)
Flatten(parts) == IF parts = <<>> THEN <<>> ELSE Head(parts) \o Flatten(Tail(parts))
ForEach(items, Op(_)) == Flatten([i \in DOMAIN items |-> Op(items[i])])

\* Object.entries of an optional table: its ports in ascending order
Entries(opt) == IF opt = Missing THEN <<>> ELSE SortedPorts(DOMAIN The(opt))

TitlePage == <<Item("title", "Security Assessment Report", 0)>>

tocItems ==
    <<"Executive Summary", "Network Security Analysis",
      "Source Code Security Review", "Security Recommendations">>

addTableOfContents(items) ==
    <<addSectionHeader("Table of Contents", 1)>> \o
    [i \in DOMAIN items |-> Item("toc", items[i], i)]

ExecutiveSummary(network, files) ==
    <<addSectionHeader("Executive Summary", 1),
      Item("text", "Overall Security Score", calculateSecurityScore(network, files))>>

\* networkResults && Object.keys(networkResults).length > 0 && networkResults.port_scan?.tcp
NetworkSectionShown(network) == HasKeys(network) /\ network.port_scan_tcp # Missing

\* the network section down to the await of its chart
NetworkHead ==
    <<addSectionHeader("Network Security Analysis", 1),
      Item("text", "Target Information", 0)>>

PortLine(port) == <<Item("text", "Port", port)>>

FindingLines(table, label) ==
    LET OfPort(port) ==
            <<Item("text", label, port)>> \o
            [i \in DOMAIN table[port].security_issues |->
                Item("text", table[port].security_issues[i], port)]
    IN ForEach(SortedPorts(DOMAIN table), OfPort)

\* the network section after its chart
NetworkBody(network) ==
    (IF KeysLength(network.port_scan_tcp) > 0
     THEN <<addSectionHeader("Open Ports", 2)>> \o ForEach(Entries(network.port_scan_tcp), PortLine)
     ELSE <<>>)
    \o
    (IF KeysLength(network.ssl_security_findings) > 0
     THEN <<addSectionHeader("SSL/TLS Security", 2)>> \o
          FindingLines(The(network.ssl_security_findings), "Port SSL Issues")
     ELSE <<>>)
    \o
    (IF KeysLength(network.http_security_findings) > 0
     THEN <<addSectionHeader("HTTP Security", 2)>> \o
          FindingLines(The(network.http_security_findings), "Port HTTP Issues")
     ELSE <<>>)

\* fileResults && Object.keys(fileResults).length > 0
CodeSectionShown(files) == DOMAIN files # {}

\* the code section down to the await of its chart
CodeHead(files, review) ==
    <<addSectionHeader("Source Code Security Review", 1),
      Item("text", getReviewTypeLabel(review), 0),
      Item("text", "Files Processed", getCodeStats(files).totalFiles),
      Item("text", "Success", getCodeStats(files).completedFiles),
      Item("text", "Errors", getCodeStats(files).errorFiles)>>

\* the code section after its chart: the files in the order of the store
CodeBody(files, zip) ==
    LET OfFile(filename) ==
            <<Item("h2", "File", filename),
              Item("text", ToUpperCase(files[filename].status), filename)>>
            \o (IF files[filename].status = COMPLETED /\ Truthy(files[filename].result)
                THEN <<Item("text", "Security Analysis Results:", filename),
                       Item("text", files[filename].result, filename)>>
                ELSE IF files[filename].status = ERROR /\ Truthy(files[filename].error)
                THEN <<Item("text", "Error Details:", filename),
                       Item("text", files[filename].error, filename)>>
                ELSE <<>>)
            \o (IF filename \in Range(zip)
                THEN <<Item("text", "Source Code:", filename)>>
                ELSE <<>>)
    IN ForEach(SelectSeq(zip, LAMBDA f : f \in DOMAIN files), OfFile)

generateRecommendations(network, files) ==
    <<"# Security Recommendations">>
    \o (IF HasKeys(network) /\ KeysLength(network.port_scan_tcp) > 0
        THEN <<"## Network Security",
               "- Port Management: Review and close unnecessary open ports to reduce attack surface.",
               "- Firewall Configuration: Implement strict firewall rules to control traffic.",
               "- Service Hardening: Regularly audit and update running services.">>
        ELSE <<>>)
    \o (IF HasKeys(network) /\ KeysLength(network.ssl_security_findings) > 0
        THEN <<"## SSL/TLS Security",
               "- Cipher Suite Updates: Use only strong, modern cipher suites (e.g., TLS 1.3).",
               "- Certificate Management: Ensure certificates are valid and renewed timely.",
               "- Protocol Hardening: Disable outdated protocols (e.g., SSLv2, SSLv3, TLSv1.0/1.1).",
               "- Certificate Transparency: Implement monitoring for certificate transparency.">>
        ELSE <<>>)
    \o (IF HasKeys(network) /\ KeysLength(network.http_security_findings) > 0
        THEN <<"## HTTP Security",
               "- Security Headers: Implement Content Security Policy (CSP), HSTS, and X-Frame-Options.",
               "- Method Restrictions: Disable unnecessary HTTP methods (e.g., TRACE, OPTIONS).",
               "- Information Disclosure: Prevent server version leaks in HTTP responses.",
               "- Cookie Security: Use secure and HttpOnly cookie flags.">>
        ELSE <<>>)
    \o (IF DOMAIN files # {}
        THEN <<"## Code Security">>
             \o (IF getCodeStats(files).errorFiles > 0
                 THEN <<"- Error Resolution: Investigate and resolve code review errors.",
                        "- Access Control: Verify file permissions and access controls.">>
                 ELSE <<>>)
             \o (IF getCodeStats(files).completedFiles > 0
                 THEN <<"- Code Improvements: Apply recommended security enhancements.",
                        "- Review Process: Implement regular automated code reviews.",
                        "- CI/CD Integration: Incorporate security scanning in CI/CD pipelines.",
                        "- Standards Documentation: Establish and enforce secure coding standards.">>
                 ELSE <<>>)
        ELSE <<>>)
    \o <<"## General Security Practices",
         "- Regular Assessments: Conduct quarterly security assessments.",
         "- Monitoring & Logging: Implement comprehensive security monitoring.",
         "- Team Training: Provide regular security awareness training.",
         "- Asset Management: Maintain an updated inventory of systems.",
         "- Incident Response: Develop and test incident response plans.",
         "- Vulnerability Management: Track and remediate vulnerabilities systematically.">>

\* the lines of the recommendations that are headings, with their levels
HeadingLevel(line) ==
    CASE line = "# Security Recommendations" -> 1
      [] line \in {"## Network Security", "## SSL/TLS Security", "## HTTP Security",
                   "## Code Security", "## General Security Practices"} -> 2
      [] OTHER -> 0

\* parseMarkdownToText on the recommendations: the heading renderer gives a
\* heading back with its marks, the list item renderer an item with its dash
parseMarkdownToText(lines) ==
    [i \in DOMAIN lines |->
        Item(IF HeadingLevel(lines[i]) > 0 THEN "heading" ELSE "listitem",
             lines[i], HeadingLevel(lines[i]))]

\* the recommendations section down to the await of the overview chart
RecommendationsSection(network, files) ==
    <<addSectionHeader("Security Recommendations", 1)>> \o
    parseMarkdownToText(generateRecommendations(network, files))

\* generatePDF from setProgress(85) to the await of the overview chart
ToOverview(doc) ==
    [pc |-> "overview", doc |-> doc \o RecommendationsSection(networkResults, fileResults),
     progress |-> 85]

\* generatePDF from setProgress(60) to its next await
ToCode(doc) ==
    IF CodeSectionShown(fileResults)
    THEN [pc |-> "code", doc |-> doc \o CodeHead(fileResults, selectedReview), progress |-> 60]
    ELSE ToOverview(doc)

\* generatePDF from setProgress(30) to its next await
ToNetwork(doc) ==
    IF NetworkSectionShown(networkResults)
    THEN [pc |-> "network", doc |-> doc \o NetworkHead, progress |-> 30]
    ELSE ToCode(doc)

\* a mutant of NewDocument: the items of the last document are kept
SameDocument == IF saved = <<>> THEN <<>> ELSE saved[Len(saved)]

\* new jsPDF()
NewDocument == <<>>

\* disabled={isGenerating || (no key in networkResults and none in fileResults)}
ExportDisabled == isGenerating \/ ~(HasKeys(networkResults) \/ DOMAIN fileResults # {})

\* the Export button is pressed: generatePDF up to the await of the imports
generatePDF ==
    /\ ~ExportDisabled
    /\ Len(saved) < MaxReports
    /\ isGenerating' = TRUE
    /\ exportProgress' = 0
    /\ pdfs' = Append(pdfs, [pc |-> "import", doc |-> NewDocument])
    /\ UNCHANGED <<securityScore, selectedReview, saved>>

\* what invocation k awaits rejects (an import, or html2canvas): catch, finally
pdfFailed(k) ==
    /\ k \in DOMAIN pdfs
    /\ pdfs' = RemoveAt(pdfs, k)
    /\ isGenerating' = FALSE
    /\ exportProgress' = 0
    /\ UNCHANGED <<securityScore, selectedReview, saved>>

\* what invocation k awaits resolves: generatePDF up to its next await, or to
\* doc.save and finally
pdfStep(k) ==
    /\ k \in DOMAIN pdfs
    /\ LET doc == pdfs[k].doc
           next == CASE pdfs[k].pc = "import" ->
                           [pc |-> "summary",
                            doc |-> doc \o TitlePage \o addTableOfContents(tocItems)
                                        \o ExecutiveSummary(networkResults, fileResults),
                            progress |-> 20]
                     [] pdfs[k].pc = "summary" -> ToNetwork(doc)
                     [] pdfs[k].pc = "network" -> ToCode(doc \o NetworkBody(networkResults))
                     [] pdfs[k].pc = "code" -> ToOverview(doc \o CodeBody(fileResults, zipFiles))
                     [] OTHER -> [pc |-> "saved", doc |-> doc, progress |-> 0]
       IN IF next.pc = "saved"
          THEN /\ saved' = Append(saved, doc)
               /\ pdfs' = RemoveAt(pdfs, k)
               /\ isGenerating' = FALSE
               /\ exportProgress' = 0
          ELSE /\ pdfs' = [pdfs EXCEPT ![k] = [pc |-> next.pc, doc |-> next.doc]]
               /\ exportProgress' = next.progress
               /\ UNCHANGED <<saved, isGenerating>>
    /\ UNCHANGED <<securityScore, selectedReview>>

exporterVars == <<securityScore, selectedReview, isGenerating, exportProgress, pdfs, saved>>

ExporterInit ==
    /\ securityScore = Missing
    /\ selectedReview = "security"
    /\ isGenerating = FALSE
    /\ exportProgress = 0
    /\ pdfs = <<>>
    /\ saved = <<>>

vars == <<codeVars, apkVars, netVars, solVars, exporterVars>>

Init == CodeInit /\ ApkInit /\ NetInit /\ SolInit /\ ExporterInit

NextCode ==
    \/ \E archive \in Archives : handleZipUpload(archive) /\ UNCHANGED <<apkVars, netVars, solVars>> /\ Render
    \/ handleCodeReview /\ UNCHANGED <<apkVars, netVars, solVars>> /\ Render
    \/ \E i \in DOMAIN runs, o \in Outcomes :
            reviewSingleFile(i, o) /\ UNCHANGED <<apkVars, netVars, solVars>> /\ Render

NextApk ==
    \/ \E f \in SelectedFiles : handleFileChange(f) /\ UNCHANGED <<codeVars, netVars, solVars>> /\ Render
    \/ handleAnalyze /\ UNCHANGED <<codeVars, netVars, solVars>> /\ Render
    \/ \E k \in DOMAIN analyses : analyzeStep(k) /\ UNCHANGED <<codeVars, netVars, solVars>> /\ Render
    \/ \E k \in DOMAIN analyses, o \in ApkOutcomes :
            analyzeResponse(k, o) /\ UNCHANGED <<codeVars, netVars, solVars>> /\ Render

NextNet ==
    \/ \E t \in Targets : setNetworkConfig(t) /\ UNCHANGED <<codeVars, apkVars, solVars>> /\ Render
    \/ handleNetworkScan /\ UNCHANGED <<codeVars, apkVars, solVars>> /\ Render
    \/ \E k \in DOMAIN scans : scanStep(k) /\ UNCHANGED <<codeVars, apkVars, solVars>> /\ Render
    \/ \E k \in DOMAIN scans, data \in ScanPayloads :
            scanResponse(k, data) /\ UNCHANGED <<codeVars, apkVars, solVars>> /\ Render
    \/ \E k \in DOMAIN scans, o \in FailedOutcomes :
            scanFailed(k, o) /\ UNCHANGED <<codeVars, apkVars, solVars>> /\ Render
    \/ \E k \in DOMAIN scans, o \in ScanOutcomes :
            lookupResponse(k, o) /\ UNCHANGED <<codeVars, apkVars, solVars>> /\ Render
    \/ \E k \in DOMAIN scans : lookupDelay(k) /\ UNCHANGED <<codeVars, apkVars, solVars>> /\ Render
    \/ handleNetworkScanComplete /\ UNCHANGED <<codeVars, apkVars, solVars>> /\ Render

\* the code review section alone
SpecCode == Init /\ [][NextCode]_vars

\* the APK analyzer section alone
SpecApk == Init /\ [][NextApk]_vars

NextSol ==
    \/ \E mode \in InputModes :
            /\ setInputMode(mode) /\ RenderFindings
            /\ UNCHANGED <<codeVars, apkVars, netVars>> /\ Render
    \/ \E selected \in ContractFiles :
            /\ handleContractFileChange(selected) /\ RenderFindings
            /\ UNCHANGED <<codeVars, apkVars, netVars>> /\ Render
    \/ \E code \in ContractCodes :
            /\ handleCodeChange(code) /\ RenderFindings
            /\ UNCHANGED <<codeVars, apkVars, netVars>> /\ Render
    \/ /\ handleSolidityAnalysis /\ RenderFindings
       /\ UNCHANGED <<codeVars, apkVars, netVars>> /\ Render
    \/ \E k \in DOMAIN solidityRuns :
            /\ solidityStep(k) /\ RenderFindings
            /\ UNCHANGED <<codeVars, apkVars, netVars>> /\ Render
    \/ \E k \in DOMAIN solidityRuns, o \in ScanOutcomes, data \in AnalysisResponses :
            /\ solidityResponse(k, o, data) /\ RenderFindings
            /\ UNCHANGED <<codeVars, apkVars, netVars>> /\ Render

\* one section is used while the other three are as they were mounted
NextSessions ==
    \/ ApkInit /\ NetInit /\ SolInit /\ NextCode
    \/ CodeInit /\ NetInit /\ SolInit /\ NextApk
    \/ CodeInit /\ ApkInit /\ SolInit /\ NextNet
    \/ CodeInit /\ ApkInit /\ NetInit /\ NextSol

\* the network scan section alone
SpecNet == Init /\ [][NextNet]_vars

\* the Solidity analysis section alone
SpecSol == Init /\ [][NextSol]_vars

\* the four sections, each run on its own from the mounted page
SpecSessions == Init /\ [][NextSessions]_vars

\* what runs without the user: a timer ends, a request is answered
ContinueStep ==
    \/ \E i \in DOMAIN runs, o \in Outcomes : reviewSingleFile(i, o)
    \/ \E k \in DOMAIN analyses : analyzeStep(k)
    \/ \E k \in DOMAIN analyses, o \in ApkOutcomes : analyzeResponse(k, o)
    \/ \E k \in DOMAIN scans : scanStep(k)
    \/ \E k \in DOMAIN scans, data \in ScanPayloads : scanResponse(k, data)
    \/ \E k \in DOMAIN scans, o \in FailedOutcomes : scanFailed(k, o)
    \/ \E k \in DOMAIN scans, o \in ScanOutcomes : lookupResponse(k, o)
    \/ \E k \in DOMAIN scans : lookupDelay(k)
    \/ handleNetworkScanComplete
    \/ \E k \in DOMAIN solidityRuns : solidityStep(k)
    \/ \E k \in DOMAIN solidityRuns, o \in ScanOutcomes, data \in AnalysisResponses :
            solidityResponse(k, o, data)

\* the four sections, every timer ending and every request being answered
LiveSessions == Init /\ [][NextSessions]_vars /\ WF_vars(NextSessions /\ ContinueStep)

\* the exporter mounted on the result of a scan, while archives are uploaded
\* and reviewed
InitScore ==
    /\ CodeInit
    /\ ApkInit
    /\ SolInit
    /\ \E data \in ScanReports : ScanEndedWith(data)
    /\ securityScore = Rendered(networkResults, fileResults)
    /\ selectedReview = "security"
    /\ isGenerating = FALSE
    /\ exportProgress = 0
    /\ pdfs = <<>>
    /\ saved = <<>>

SpecScore == InitScore /\ [][NextCode]_vars

\* the exporter mounted on the result of a scan and on the store of a review
InitReport ==
    /\ ApkInit
    /\ SolInit
    /\ \E data \in ScanReports \cup {EmptyObject} :
          IF data = EmptyObject THEN NetInit ELSE ScanEndedWith(data)
    /\ \E fr \in IdleStores : ReviewEndedWith(fr)
    /\ securityScore = Rendered(networkResults, fileResults)
    /\ selectedReview \in ReviewTypes
    /\ isGenerating = FALSE
    /\ exportProgress = 0
    /\ pdfs = <<>>
    /\ saved = <<>>

\* the contract section once an analysis of Token.sol has ended with res
AnalysisEndedWith(res) ==
    /\ inputMode = "file"
    /\ solidityConfig = [file |-> "Token.sol", contractCode |-> ""]
    /\ solidityResults = res
    /\ solidityStatus = IF res.kind = "error" THEN ERROR ELSE COMPLETED
    /\ solidityProgress = IF res.kind = "error" THEN <<(SolSteps - 2) * SolCap, SolSteps>>
                          ELSE <<100, 1>>
    /\ currentAnalysisStep = IF res.kind = "error" THEN SolSteps - 2 ELSE ReportStep
    /\ solidityRuns = <<>>
    /\ findings = RenderedFindings(res)

\* the contract section showing the result of an analysis
InitFindings ==
    /\ CodeInit
    /\ ApkInit
    /\ NetInit
    /\ ExporterInit
    /\ \E res \in ContractResults : AnalysisEndedWith(res)

\* the contract is analysed again
NextFindings ==
    \/ /\ handleSolidityAnalysis /\ RenderFindings
       /\ UNCHANGED <<codeVars, apkVars, netVars>> /\ Render
    \/ \E k \in DOMAIN solidityRuns :
            /\ solidityStep(k) /\ RenderFindings
            /\ UNCHANGED <<codeVars, apkVars, netVars>> /\ Render
    \/ \E k \in DOMAIN solidityRuns, o \in ScanOutcomes, data \in AnalysisResponses :
            /\ solidityResponse(k, o, data) /\ RenderFindings
            /\ UNCHANGED <<codeVars, apkVars, netVars>> /\ Render

SpecFindings == InitFindings /\ [][NextFindings]_vars

\* scan results with any of the three tables absent, and the object left by a
\* failed scan
SparseReports ==
    {[EmptyObject EXCEPT !.port_scan_tcp = t, !.ssl_security_findings = f,
                         !.http_security_findings = h] :
        t \in {Missing, Some([p \in 1..MaxOpenPorts |-> [product |-> "", version |-> ""]])},
        f \in {Missing, Some([p \in 1..1 |-> Finding])},
        h \in {Missing, Some([p \in 1..1 |-> Finding])}}
    \cup {[EmptyObject EXCEPT !.error = "Failed to fetch"]}

\* contract results with and without a vulnerabilities list
SparseContractResults == AnalysisResponses \cup {AnalysisError("Failed to fetch")}

\* the page with the results of a scan, of a review and of a contract analysis,
\* any of their optional parts absent
InitAggregate ==
    /\ ApkInit
    /\ \E data \in SparseReports :
          IF data = EmptyObject THEN NetInit ELSE ScanEndedWith(data)
    /\ \E fr \in IdleStores : ReviewEndedWith(fr)
    /\ \E res \in SparseContractResults : AnalysisEndedWith(res)
    /\ securityScore = Rendered(networkResults, fileResults)
    /\ selectedReview = "security"
    /\ isGenerating = FALSE
    /\ exportProgress = 0
    /\ pdfs = <<>>
    /\ saved = <<>>

NextReport ==
    \/ generatePDF /\ UNCHANGED <<codeVars, apkVars, netVars, solVars>>
    \/ \E k \in DOMAIN pdfs : pdfStep(k) /\ UNCHANGED <<codeVars, apkVars, netVars, solVars>>
    \/ \E k \in DOMAIN pdfs : pdfFailed(k) /\ UNCHANGED <<codeVars, apkVars, netVars, solVars>>

\* the exporter generating documents from the results it was mounted on
SpecReport == InitReport /\ [][NextReport]_vars

\* the contract is analysed again, and a report is exported while no analysis
\* is running
NextAggregate ==
    \/ NextFindings
    \/ solidityRuns = <<>> /\ NextReport

SpecAggregate == InitAggregate /\ [][NextAggregate]_vars

(***************************************************************************)
(* Properties of the code review batch                                     *)
(***************************************************************************)

\* the files a run has called, in the order of the calls, and those it has settled
RECURSIVE Logged(_, _)
Logged(log, kind) ==
    IF log = <<>> THEN <<>>
    ELSE IF Head(log)[1] = kind THEN <<Head(log)[2]>> \o Logged(Tail(log), kind)
    ELSE Logged(Tail(log), kind)

\* the calls of a run that have not settled
Outstanding(r) == Len(Logged(r.log, "call")) - Len(Logged(r.log, "done"))

\* run i returns in this step: its last call settles
Returns(i) ==
    /\ i \in DOMAIN runs
    /\ runs[i].completed + 1 = Len(runs[i].filenames)
    /\ runs' = RemoveAt(runs, i)
    /\ isCodeProcessing /\ ~isCodeProcessing'

Terminal(st) == st \in {COMPLETED, ERROR}

\* C1: when a batch of N files returns (isCodeProcessing goes back to false),
\* each of its N files is in status completed or error in the store: none is
\* missing, pending or processing.
C1_BatchFullySettled ==
    [][\A i \in DOMAIN runs :
          Returns(i) =>
             \A f \in Range(runs[i].filenames) :
                f \in DOMAIN fileResults' /\ Terminal(fileResults'[f].status)]_vars

\* C2: when the call for a file fails (a response that is not ok, or a thrown
\* error) the file is recorded with status error and a non-empty message, and
\* the run goes on: the next file of the input is called in the same step, and
\* a run that returns has called every file of its input.
C2_FailureIsolation ==
    [][\A i \in DOMAIN runs : \A o \in FailOutcomes :
          reviewSingleFile(i, o) =>
             LET r == runs[i]
                 f == CurrentFile(r)
             IN /\ f \in DOMAIN fileResults'
                /\ fileResults'[f].status = ERROR
                /\ Truthy(fileResults'[f].error)
                /\ fileResults'[f].result = Null
                /\ IF r.completed + 1 < Len(r.filenames)
                   THEN /\ i \in DOMAIN runs'
                        /\ runs'[i].filenames = r.filenames
                        /\ Logged(runs'[i].log, "call")
                             = SubSeq(r.filenames, 1, r.completed + 2)
                        /\ isCodeProcessing'
                   ELSE /\ Logged(r.log, "call") = r.filenames
                        /\ ~isCodeProcessing']_vars

\* a failed file followed by the call of the next file of the same run
C2_Witness ==
    \E i \in DOMAIN runs :
        /\ runs[i].completed >= 1
        /\ runs[i].filenames[1] \in DOMAIN fileResults
        /\ fileResults[runs[i].filenames[1]].status = ERROR
        /\ fileResults[runs[i].filenames[1]].error = "Unknown error occurred"
        /\ Outstanding(runs[i]) = 1
        /\ fileResults[CurrentFile(runs[i])].status = PROCESSING

\* C4: a unit's status only moves pending -> processing -> {completed, error}.
\* Uploading an archive or choosing an APK makes new units; every other step
\* leaves each status alone or moves it along one of these three edges, so a
\* completed unit is never moved back to processing.
LifecycleEdge(a, b) ==
    \/ a = b
    \/ a = PENDING /\ b = PROCESSING
    \/ a = PROCESSING /\ b \in {COMPLETED, ERROR}

C4_MonotonicStatus ==
    [][/\ (handleCodeReview \/ \E i \in DOMAIN runs, o \in Outcomes : reviewSingleFile(i, o))
          => \A f \in DOMAIN fileResults \cap DOMAIN fileResults' :
                LifecycleEdge(fileResults[f].status, fileResults'[f].status)
       /\ (file' = file) => LifecycleEdge(status, status')
       /\ LifecycleEdge(networkStatus, networkStatus')]_vars

\* C5: the files of a batch are processed in input order: the calls follow the
\* input, a file is called only after every earlier file has been settled, and,
\* while the store is the one the batch started on, the earlier files are
\* completed or failed, the current one is processing and no later one is.
InOrder(r) ==
    LET calls == Logged(r.log, "call")
        dones == Logged(r.log, "done")
    IN /\ Len(calls) <= Len(r.filenames)
       /\ calls = SubSeq(r.filenames, 1, Len(calls))
       /\ dones = SubSeq(r.filenames, 1, Len(dones))
       /\ Len(dones) = r.completed
       /\ Len(calls) <= Len(dones) + 1
       /\ \A p \in DOMAIN r.log :
             r.log[p][1] = "call" =>
                \A j \in DOMAIN r.filenames :
                   (r.filenames[j] = r.log[p][2]) =>
                      \A e \in 1..(j - 1) :
                         \E q \in 1..(p - 1) : r.log[q] = <<"done", r.filenames[e]>>

C5_InputOrder ==
    \A i \in DOMAIN runs :
        LET r == runs[i]
        IN /\ InOrder(r)
           /\ ~r.abandoned =>
                \A j \in DOMAIN r.filenames :
                   /\ r.filenames[j] \in DOMAIN fileResults
                   /\ j <= r.completed => Terminal(fileResults[r.filenames[j]].status)
                   /\ j = r.completed + 1 => fileResults[r.filenames[j]].status = PROCESSING
                   /\ j > r.completed + 1 => fileResults[r.filenames[j]].status # PROCESSING

\* a run whose second file is being processed after its first was settled
C5_Witness ==
    \E i \in DOMAIN runs :
        /\ ~runs[i].abandoned
        /\ runs[i].completed = 1
        /\ Len(runs[i].filenames) >= 2
        /\ Terminal(fileResults[runs[i].filenames[1]].status)
        /\ fileResults[runs[i].filenames[2]].status = PROCESSING

\* C6: at most one file has status processing and at most one call of the
\* analyzer is outstanding, whatever the user does while a batch runs.
RECURSIVE SumOutstanding(_)
SumOutstanding(rs) ==
    IF rs = <<>> THEN 0 ELSE Outstanding(Head(rs)) + SumOutstanding(Tail(rs))

C6_OneAtATime ==
    /\ CountStatus(fileResults, PROCESSING) <= 1
    /\ SumOutstanding(runs) <= 1
    /\ Len(runs) <= 1
    /\ isCodeProcessing <=> runs # <<>>

\* a batch in flight whose store was replaced by an upload, the button still
\* disabled although the new archive has files
C6_Witness ==
    /\ runs # <<>>
    /\ runs[1].abandoned
    /\ SumOutstanding(runs) = 1
    /\ totalFiles > 0
    /\ StartDisabled
    /\ CountStatus(fileResults, PROCESSING) = 1

\* C7: once the store a batch started on has been replaced by an upload, no
\* step of that batch changes the store.
C7_NoWriteAfterDiscard ==
    [][\A i \in DOMAIN runs : \A o \in Outcomes :
          (runs[i].abandoned /\ reviewSingleFile(i, o)) => fileResults' = fileResults]_vars

(***************************************************************************)
(* Properties of the analysis units                                        *)
(***************************************************************************)
\* C3: for every unit (a reviewed file, the APK analysis, the network scan),
\* status completed implies a result and no error, and status error implies an
\* error message and no result.
UnitConsistent(st, hasResult, hasError) ==
    /\ st = COMPLETED => hasResult /\ ~hasError
    /\ st = ERROR => hasError /\ ~hasResult

C3_LifecycleInvariant ==
    /\ \A f \in DOMAIN fileResults :
          UnitConsistent(fileResults[f].status,
                         Present(fileResults[f].result), Present(fileResults[f].error))
    /\ UnitConsistent(status, Present(results), Present(error))
    /\ UnitConsistent(networkStatus,
                      networkResults.port_scan_tcp # Missing \/ networkResults.tcp # Missing,
                      Present(networkResults.error))

(***************************************************************************)
(* Properties of the CVE enrichment                                        *)
(***************************************************************************)
\* C8: a product that appears on two or more ports is looked up exactly once,
\* and once the scan has completed every port with that product is shown the
\* same CVE records.
C8_OneLookupPerProduct ==
    /\ \A k \in DOMAIN scans :
          \A p, q \in DOMAIN scans[k].lookups :
             p # q => scans[k].lookups[p].product # scans[k].lookups[q].product
    /\ networkStatus = COMPLETED =>
          \A p, q \in DOMAIN getPortData(networkResults) :
             LET t == getPortData(networkResults)
             IN (Truthy(Trim(t[p].product)) /\ Trim(t[p].product) = Trim(t[q].product))
                   => ShownCves(networkResults, cveData, p) = ShownCves(networkResults, cveData, q)

\* C9: a failed lookup, be it a response that is not ok or a thrown error, does
\* not halt enrichment: when the scan has completed, the mapping has an entry
\* (records or error) for every product extracted from the scan result.
C9_EveryProductHasEntry ==
    networkStatus = COMPLETED =>
        \A n \in DOMAIN extractProductsFromScanResults(networkResults) :
            extractProductsFromScanResults(networkResults)[n].product \in DOMAIN cveData

\* C10: two consecutive lookups are at least CveDelay apart, so the third
\* lookup is issued no earlier than 2 * CveDelay after the first, and the
\* resolver that has looked up three products has run for at least that long.
C10_RateLimit ==
    \A k \in DOMAIN scans :
        LET l == scans[k].lookups
        IN /\ \A n \in 1..(Len(l) - 1) : l[n + 1].at - l[n].at >= CveDelay
           /\ Len(l) >= 3 => clock - l[1].at >= 2 * CveDelay
           /\ Len(l) = scans[k].idx

\* a resolver waiting for the answer to its third lookup, the second of which
\* had failed
C10_Witness ==
    \E k \in DOMAIN scans :
        /\ scans[k].pc = "lookup"
        /\ Len(scans[k].lookups) = 3
        /\ scans[k].lookups[2].product \in DOMAIN scans[k].cveResults
        /\ scans[k].cveResults[scans[k].lookups[2].product].error = "Failed to fetch CVE data"

(***************************************************************************)
(* Properties of the sessions                                              *)
(***************************************************************************)
\* C11: when the scan request fails (the response is not ok, or the transport
\* rejects), the status becomes error with a message that can be shown, the
\* scan is over and has issued no lookup; while the status is error no scan is
\* in flight, and the status leaves error only when a new scan is started,
\* never to become completed.
C11_ScanFailureEndsSession ==
    [][/\ \A k \in DOMAIN scans : \A o \in FailedOutcomes :
             scanFailed(k, o) =>
                /\ networkStatus' = ERROR
                /\ Truthy(networkResults'.error)
                /\ scans[k].lookups = <<>>
                /\ scans' = RemoveAt(scans, k)
                /\ \A j \in DOMAIN scans' : scans'[j].pc \notin {"lookup", "delay"}
                /\ UNCHANGED <<cveData, networkProgress, onCompleteTimers>>
       /\ networkStatus = ERROR =>
             /\ scans = <<>>
             /\ networkStatus' \in {ERROR, PROCESSING}
             /\ networkStatus' = PROCESSING => handleNetworkScan]_vars

\* a scan that failed with a response that was not ok
C11_Witness ==
    /\ networkStatus = ERROR
    /\ networkResults.error = "HTTP 500: INTERNAL SERVER ERROR"
    /\ scans = <<>>
    /\ cveData = <<>>

(***************************************************************************)
(* Properties of the security score                                        *)
(***************************************************************************)
\* 100 - 15*ssl - 10*http - 5*max(0, ports - 3) - 25*failed/total, the last
\* term left out when total = 0, as the fraction <<numerator, denominator>>
ScoreTerms(ssl, http, ports, total, failed) ==
    LET net == 100 - 15 * ssl - 10 * http - 5 * (IF ports > 3 THEN ports - 3 ELSE 0)
    IN IF total = 0 THEN <<net, 1>> ELSE <<net * total - 25 * failed, total>>

\* the fraction of the counts the exporter is rendered on
CurrentTerms ==
    ScoreTerms(getNetworkStats(networkResults).sslIssues,
               getNetworkStats(networkResults).httpIssues,
               getNetworkStats(networkResults).openPorts,
               getCodeStats(fileResults).totalFiles,
               getCodeStats(fileResults).errorFiles)

C13_ScoreInRange ==
    ExporterShown(networkResults, fileResults) =>
        /\ securityScore \in {Some(n) : n \in 0..100}
        /\ securityScore = Some(calculateSecurityScore(networkResults, fileResults))

\* the deductions exceed 100 while a file has failed and another is yet to be
\* reviewed
C13_Witness ==
    /\ CurrentTerms[1] < 0
    /\ securityScore = Some(0)
    /\ CountStatus(fileResults, ERROR) >= 1
    /\ CountStatus(fileResults, PENDING) >= 1

(***************************************************************************)
(* Properties of the step sequences and of the progress values             *)
(***************************************************************************)
\* two progress values <<numerator, denominator>> are the same percentage, and
\* one is at least the other
SamePercent(a, b) == a[1] * b[2] = b[1] * a[2]
AtLeast(a, b) == a[1] * b[2] >= b[1] * a[2]

\* a step of the network scan, the APK analysis or the contract analysis that
\* shows step i: the index shown and the percentage reported are as pct says
StepsShow(pct(_, _, _)) ==
    /\ handleNetworkScan =>
          currentScanStep' = 0 /\ SamePercent(networkProgress', pct(0, NetSteps, NetCap))
    /\ \A k \in DOMAIN scans :
          (scanStep(k) /\ scans[k].i + 1 < NetSteps - 1) =>
             /\ currentScanStep' = scans[k].i + 1
             /\ SamePercent(networkProgress', pct(scans[k].i + 1, NetSteps, NetCap))
    /\ handleSolidityAnalysis =>
          currentAnalysisStep' = 0 /\ SamePercent(solidityProgress', pct(0, SolSteps, SolCap))
    /\ \A k \in DOMAIN solidityRuns :
          (solidityStep(k) /\ solidityRuns[k].i + 1 < SolSteps - 1) =>
             /\ currentAnalysisStep' = solidityRuns[k].i + 1
             /\ SamePercent(solidityProgress', pct(solidityRuns[k].i + 1, SolSteps, SolCap))
    /\ (handleAnalyze /\ Present(file)) =>
          currentStep' = 0 /\ SamePercent(progress', pct(0, ApkSteps, 100))
    /\ \A k \in DOMAIN analyses :
          (analyzeStep(k) /\ analyses[k] + 1 < ApkSteps) =>
             /\ currentStep' = analyses[k] + 1
             /\ SamePercent(progress', pct(analyses[k] + 1, ApkSteps, 100))

FlooredPercent(i, totalSteps, capPercent) == <<(i * capPercent) \div totalSteps, 1>>
ExactPercent(i, totalSteps, capPercent) == <<i * capPercent, totalSteps>>

C15_CompletedIsFull ==
    /\ networkStatus = COMPLETED =>
          SamePercent(networkProgress, <<100, 1>>) /\ currentScanStep = NetSteps - 1
    /\ status = COMPLETED =>
          SamePercent(progress, <<100, 1>>) /\ currentStep = ApkSteps - 1
    /\ solidityStatus = COMPLETED =>
          SamePercent(solidityProgress, <<100, 1>>) /\ currentAnalysisStep = SolSteps - 1

\* C16: while a session is running (a network scan, a contract analysis, an
\* APK analysis or a code review batch that has started and has not ended), no
\* step lowers the progress value of its section.
C16_ProgressNeverDecreases ==
    [][/\ scans # <<>> => AtLeast(networkProgress', networkProgress)
       /\ solidityRuns # <<>> => AtLeast(solidityProgress', solidityProgress)
       /\ analyses # <<>> => AtLeast(progress', progress)
       /\ runs # <<>> => AtLeast(codeProgress', codeProgress)]_vars

\* C17: while a session is running, the step index of its section stays or
\* moves to the next index: it never moves backward and skips no step.
C17_StepsInOrder ==
    [][/\ scans # <<>> => currentScanStep' \in {currentScanStep, currentScanStep + 1}
       /\ solidityRuns # <<>> =>
             currentAnalysisStep' \in {currentAnalysisStep, currentAnalysisStep + 1}
       /\ analyses # <<>> => currentStep' \in {currentStep, currentStep + 1}]_vars

\* C18: when a call of a batch of N files settles, whether the file was
\* reviewed or failed, the progress becomes processed/N as a percentage, where
\* processed counts the files of the batch settled so far, the failed ones
\* included; it becomes 100% exactly when all N files have been settled.
C18_ProgressIsProcessedShare ==
    [][\A i \in DOMAIN runs : \A o \in Outcomes :
          reviewSingleFile(i, o) =>
             LET N == Len(runs[i].filenames)
                 processed == Len(Logged(runs[i].log, "done")) + 1
             IN /\ SamePercent(codeProgress', <<processed * 100, N>>)
                /\ SamePercent(codeProgress', <<100, 1>>) <=> processed = N
                /\ processed = N <=> Len(runs') < Len(runs)]_vars

\* a batch of two files whose first file failed: the progress is 50%
C18_Witness ==
    \E i \in DOMAIN runs :
        /\ Len(runs[i].filenames) = 2
        /\ runs[i].completed = 1
        /\ ~runs[i].abandoned
        /\ fileResults[runs[i].filenames[1]].status = ERROR
        /\ codeProgress = <<100, 2>>

(***************************************************************************)
(* Properties of the report                                                *)
(***************************************************************************)
\* document d has a section header, or a recommendations heading, of this text
HasHeader(d, title) == \E i \in DOMAIN d : d[i][1] \in {"h1", "h2"} /\ d[i][2] = title
HasLine(d, line) == \E i \in DOMAIN d : d[i][1] = "heading" /\ d[i][2] = line

\* item i of d is a heading that nothing but the next heading follows
IsEmptyHeading(d, i) ==
    LET LevelOf(item) == IF item[1] = "h1" THEN 1 ELSE IF item[1] = "h2" THEN 2 ELSE item[3]
    IN /\ d[i][1] \in {"h1", "h2", "heading"}
       /\ \/ i = Len(d)
          \/ /\ d[i + 1][1] \in {"h1", "h2"}
             /\ LevelOf(d[i + 1]) <= LevelOf(d[i])
          \/ /\ d[i][1] = "heading"
             /\ d[i + 1][1] = "heading"
             /\ LevelOf(d[i + 1]) <= LevelOf(d[i])

\* C19: a saved document has a section, in its body or in its
\* recommendations, only for findings that are not empty (SSL findings, HTTP
\* findings, open ports, file results), and no heading of it has an empty body.
C19_SectionsOnlyForFindings ==
    \A n \in DOMAIN saved :
        LET d == saved[n]
            stats == getNetworkStats(networkResults)
        IN /\ HasHeader(d, "SSL/TLS Security") => stats.sslIssues > 0
           /\ HasHeader(d, "HTTP Security") => stats.httpIssues > 0
           /\ HasHeader(d, "Network Security Analysis") => stats.openPorts > 0
           /\ HasHeader(d, "Source Code Security Review") => DOMAIN fileResults # {}
           /\ HasLine(d, "## SSL/TLS Security") => stats.sslIssues > 0
           /\ HasLine(d, "## HTTP Security") => stats.httpIssues > 0
           /\ HasLine(d, "## Network Security") => stats.openPorts > 0
           /\ HasLine(d, "## Code Security") => DOMAIN fileResults # {}
           /\ \A i \in DOMAIN d : ~IsEmptyHeading(d, i)

NamedBucket(impact) ==
    CASE impact \in {"High", "high"} -> "high"
      [] impact = "Medium" -> "medium"
      [] impact = "Low" -> "low"
      [] impact = "Optimization" -> "optimization"
      [] OTHER -> "informational"

Buckets == {"high", "medium", "low", "informational", "optimization"}

\* the ids of the vulnerabilities of list v that name bucket b, in list order
IdsNaming(v, b) ==
    LET named == SelectSeq(v, LAMBDA vuln : NamedBucket(vuln.impact) = b)
    IN [i \in DOMAIN named |-> named[i].id]

\* C21: every vulnerability of a contract result is in exactly one of the five
\* buckets, the one its impact names (informational for a missing or unknown
\* impact); the bucket sizes sum to the number of vulnerabilities, and inside a
\* bucket the findings are in the order of the input.
C21_BucketsPartitionFindings ==
    (solidityResults.kind = "data" /\ solidityResults.vulnerabilities # Missing) =>
        LET v == The(solidityResults.vulnerabilities)
            shown == The(findings)
        IN /\ findings # Missing
           /\ DOMAIN shown = Buckets
           /\ \A b \in Buckets :
                 [i \in DOMAIN shown[b] |-> shown[b][i].id] = IdsNaming(v, b)
           /\ \A n \in DOMAIN v :
                 Cardinality({b \in Buckets : \E i \in DOMAIN shown[b] : shown[b][i].id = v[n].id}) = 1
           /\ totalFindings = Len(v)

\* a result of three vulnerabilities: the first and the third of high impact in
\* different spellings, the second of an impact the section does not know
C21_Witness ==
    /\ solidityResults.kind = "data"
    /\ solidityResults.vulnerabilities # Missing
    /\ LET v == The(solidityResults.vulnerabilities)
       IN /\ Len(v) = 3
          /\ v[1].impact = "high" /\ v[2].impact = "Critical" /\ v[3].impact = "High"
    /\ findings # Missing
    /\ Len(The(findings).high) = 2
    /\ Len(The(findings).informational) = 1

(***************************************************************************)
(* Properties of the aggregation                                           *)
(***************************************************************************)
\* the number of entries of an optional section, none when it is absent
CountOrZero(opt) == IF opt = Missing THEN 0 ELSE Cardinality(DOMAIN The(opt))

\* C22: whatever optional part of the results is absent (port_scan,
\* ssl_security_findings, http_security_findings, as in the object of a failed
\* scan; the files; the vulnerabilities list), the aggregation is produced:
\* the statistics count an absent section as zero, the mounted exporter has a
\* score, the one of these counts, and the contract section has its five
\* buckets, empty when there is no list.
C22_AbsentSectionsCountZero ==
    /\ getNetworkStats(networkResults) =
          [openPorts |-> CountOrZero(networkResults.port_scan_tcp),
           sslIssues |-> CountOrZero(networkResults.ssl_security_findings),
           httpIssues |-> CountOrZero(networkResults.http_security_findings)]
    /\ DOMAIN fileResults = {} =>
          getCodeStats(fileResults) = [totalFiles |-> 0, completedFiles |-> 0, errorFiles |-> 0]
    /\ (HasKeys(networkResults) \/ DOMAIN fileResults # {}) =>
          /\ securityScore # Missing
          /\ The(securityScore) =
                Clamp(MathRound(ScoreTerms(CountOrZero(networkResults.ssl_security_findings),
                                           CountOrZero(networkResults.http_security_findings),
                                           CountOrZero(networkResults.port_scan_tcp),
                                           Cardinality(DOMAIN fileResults),
                                           CountStatus(fileResults, ERROR))))
    /\ solidityResults # NoResults =>
          /\ findings # Missing
          /\ DOMAIN The(findings) = Buckets
          /\ (solidityResults.kind = "error" \/ solidityResults.vulnerabilities = Missing) =>
                /\ The(findings) = NoFindings
                /\ totalFindings = 0
    /\ \A n \in DOMAIN saved :
          \E i \in DOMAIN saved[n] : saved[n][i][2] = "Overall Security Score"

\* the object of a failed scan, no file and a contract result without a list:
\* the score is 100, the buckets are empty, and a report has been saved
C22_Witness ==
    /\ networkResults.error # Undefined
    /\ networkResults.port_scan_tcp = Missing
    /\ networkResults.ssl_security_findings = Missing
    /\ DOMAIN fileResults = {}
    /\ solidityResults = AnalysisData(Missing)
    /\ securityScore = Some(100)
    /\ findings = Some(NoFindings)
    /\ Len(saved) > 0

(***************************************************************************)
(* Properties of the enrichment records                                    *)
(***************************************************************************)
\* C23: the records of a lookup are stored under the trimmed product name, and
\* once the scan has completed every displayed port whose product is not blank
\* is shown exactly the records stored under its trimmed product name, also
\* when the reported product has white space around it.
C23_TrimmedKeyFanOut ==
    networkStatus = COMPLETED =>
        LET table == getPortData(networkResults)
        IN /\ \A q \in DOMAIN cveData :
                 \E n \in DOMAIN extractProductsFromScanResults(networkResults) :
                    q = Trim(extractProductsFromScanResults(networkResults)[n].product)
           /\ \A port \in DOMAIN table :
                 Truthy(Trim(table[port].product)) =>
                    ShownCves(networkResults, cveData, port) =
                       IF Trim(table[port].product) \in DOMAIN cveData
                       THEN cveData[Trim(table[port].product)].cves
                       ELSE <<>>

\* C24: in a network session a lookup is issued only once the scan response
\* is stored (the products looked up are those of the stored result, and the
\* lookup before it has returned), and the session becomes completed, with
\* progress 100, only when no lookup of it is outstanding or still to be issued.
C24_EnrichmentBeforeCompletion ==
    [][/\ \A k \in DOMAIN scans \cap DOMAIN scans' :
             Len(scans'[k].lookups) > Len(scans[k].lookups) =>
                /\ scans[k].pc \in {"scan", "delay"}
                /\ networkResults'.error = Undefined
                /\ scans'[k].products = extractProductsFromScanResults(networkResults')
                /\ scans'[k].lookups[Len(scans'[k].lookups)].product
                      = scans'[k].products[Len(scans'[k].lookups)].product
                /\ networkStatus' = PROCESSING
                /\ currentScanStep' = CveStep
       /\ \A k \in DOMAIN scans :
             scans[k].pc \in {"step", "scan"} => scans[k].lookups = <<>>
       /\ networkStatus' = COMPLETED =>
             /\ networkProgress' = <<100, 1>>
             /\ \A k \in DOMAIN scans' : scans'[k].pc \notin {"scan", "lookup", "delay"}
       /\ (networkStatus # COMPLETED /\ networkStatus' = COMPLETED) =>
             \E k \in DOMAIN scans :
                \/ scans[k].pc = "scan" /\ extractProductsFromScanResults(networkResults') = <<>>
                \/ scans[k].pc = "lookup"
                \/ scans[k].pc = "delay" /\ scans[k].idx = Len(scans[k].products)]_vars

\* a scan completed after two lookups, both recorded
C24_Witness ==
    /\ networkStatus = COMPLETED
    /\ networkProgress = <<100, 1>>
    /\ Cardinality(DOMAIN cveData) = 2
    /\ scans = <<>>

\* the record stored under key q was produced by a lookup for a product of
\* result res
RecordOf(res, q, record) ==
    \E n \in DOMAIN extractProductsFromScanResults(res) :
        LET productInfo == extractProductsFromScanResults(res)[n]
        IN /\ productInfo.product = q
           /\ record.port = productInfo.port
           /\ record.version = productInfo.version

\* C25: the stored records belong to the current session: starting a scan
\* empties the store before any lookup of the new scan, the store is written
\* only with the records that the ending scan collected from its own lookups,
\* and it stays empty while the scan runs and when it fails or finds no
\* product.
C25_RecordsOfCurrentSession ==
    [][/\ handleNetworkScan => cveData' = <<>>
       /\ networkStatus \in {PENDING, PROCESSING, ERROR} => cveData = <<>>
       /\ \A k \in DOMAIN scans :
             /\ \A q \in DOMAIN scans[k].cveResults :
                   \E n \in DOMAIN scans[k].lookups : scans[k].lookups[n].product = q
             /\ scans[k].pc \in {"step", "scan"} => scans[k].cveResults = <<>>
       /\ cveData' # cveData =>
             \/ handleNetworkScan
             \/ \E k \in DOMAIN scans :
                   /\ scans' = RemoveAt(scans, k)
                   /\ cveData' = scans[k].cveResults
                   /\ \A q \in DOMAIN cveData' : RecordOf(networkResults', q, cveData'[q])
       /\ (networkStatus' = COMPLETED /\ extractProductsFromScanResults(networkResults') = <<>>)
             => cveData' = <<>>]_vars

\* a second scan running after a scan that had found products and completed:
\* the result of the first scan is still held, its records are gone
C25_Witness ==
    /\ networkStatus = PROCESSING
    /\ codeScanOpen
    /\ extractProductsFromScanResults(networkResults) # <<>>
    /\ cveData = <<>>
    /\ Len(scans) = 1

(***************************************************************************)
(* Termination of the sessions                                             *)
(***************************************************************************)
\* C26: when every timer ends and every request is answered or rejected, a
\* network, APK or contract session that is processing comes to status
\* completed or error, and a running code review batch comes to
\* isCodeProcessing false.
C26_SessionsEnd ==
    /\ (networkStatus = PROCESSING) ~> (networkStatus \in {COMPLETED, ERROR})
    /\ (status = PROCESSING) ~> (status \in {COMPLETED, ERROR})
    /\ (solidityStatus = PROCESSING) ~> (solidityStatus \in {COMPLETED, ERROR})
    /\ isCodeProcessing ~> ~isCodeProcessing

\* a contract analysis whose request was rejected has ended with status error
C26_Witness ==
    /\ solidityStatus = ERROR
    /\ solidityResults = AnalysisError("Failed to fetch")
    /\ solidityRuns = <<>>

\* C27: in each section at most one session is in flight: no scan or analysis
\* is started while the previous one of the section is still running, whatever
\* the user does (start button, another file, another configuration) while a
\* request is pending.
C27_OneSessionPerSection ==
    /\ Len(scans) <= 1
    /\ Len(analyses) <= 1
    /\ Len(solidityRuns) <= 1

\* C28: onComplete of the network section runs only while the network status
\* is completed: one call is scheduled by each scan that becomes completed,
\* none by a scan that fails, and no call runs while a later scan is
\* processing.
C28_OnCompleteWhileCompleted ==
    [][/\ onCompleteTimers' = onCompleteTimers + 1
             <=> (networkStatus = PROCESSING /\ networkStatus' = COMPLETED)
       /\ networkStatus' = ERROR => onCompleteTimers' = onCompleteTimers
       /\ onCompleteTimers' < onCompleteTimers =>
             /\ onCompleteTimers' = onCompleteTimers - 1
             /\ networkStatus = COMPLETED
             /\ scans = <<>>]_vars

(***************************************************************************)
(* Properties of the table of contents                                     *)
(***************************************************************************)
\* document d lists title in its table of contents
Listed(d, title) == \E i \in DOMAIN d : d[i][1] = "toc" /\ d[i][2] = title

\* C29: a saved report lists 'Network Security Analysis' in its table of
\* contents exactly when it has the network section, and 'Source Code Security
\* Review' exactly when it has the code section.
C29_ContentsMatchSections ==
    \A n \in DOMAIN saved :
        /\ Listed(saved[n], "Network Security Analysis")
              <=> HasHeader(saved[n], "Network Security Analysis")
        /\ Listed(saved[n], "Source Code Security Review")
              <=> HasHeader(saved[n], "Source Code Security Review")

(***************************************************************************)
(* Agreement of the exporter with the network section                      *)
(***************************************************************************)
\* C30: for the result of a completed scan, with its ports under
\* port_scan.tcp or under tcp, the counts of open ports, SSL issues and HTTP
\* issues the exporter uses equal the counts in the summary of the network
\* section, and the ports gone through for enrichment are the ports displayed.
C30_ExporterAgreesWithSection ==
    networkStatus = COMPLETED =>
        /\ getNetworkStats(networkResults).openPorts
              = Cardinality(DOMAIN getPortData(networkResults))
        /\ getNetworkStats(networkResults).sslIssues
              = getSecurityFindingsCount(networkResults).sslCount
        /\ getNetworkStats(networkResults).httpIssues
              = getSecurityFindingsCount(networkResults).httpCount
        /\ PortsConsidered(networkResults) = DOMAIN getPortData(networkResults)
====
